---- MODULE Spec2Model ----
(***************************************************************************)
(* A model of the event-sourced "update weather" saga of                   *)
(* weather-poc-disintegrate: the saga aggregate (update/state.rs,          *)
(* update/status.rs), its commands (update/protocol.rs, zone/protocol.rs), *)
(* the orchestration tasks StartUpdate spawns, and the                     *)
(* update_weather_history projection (update/read_model.rs).               *)
(***************************************************************************)
EXTENDS Integers, Sequences, FiniteSets, TLC

\* ------------------------------------------------------------------------
\* Bounds of the model
\* ------------------------------------------------------------------------

\* number of active alerts the provider returns in one fetch
MaxAlerts == 1

\* length of the event log in SagaSpec
MaxEvents == 5

\* ------------------------------------------------------------------------
\* Identifiers and events (model/weather.rs)
\* ------------------------------------------------------------------------

Zones == {"otis", "stella"}

NoZone == "-"

\* the update id StartUpdate::for_zones generates for the update under study
U == "u1"

LocationZoneEvent ==
    {"ObservationUpdated", "ForecastUpdated", "AlertActivated", "AlertDeactivated"}

WeatherEvent(type, update_id, zone, zones) ==
    [type |-> type, update_id |-> update_id, zone |-> zone, zones |-> zones]

ObservationUpdated(zone, update_id) ==
    WeatherEvent("ObservationUpdated", update_id, zone, {})

ForecastUpdated(zone, update_id) ==
    WeatherEvent("ForecastUpdated", update_id, zone, {})

AlertActivated(zone, update_id) ==
    WeatherEvent("AlertActivated", update_id, zone, {})

AlertDeactivated(zone, update_id) ==
    WeatherEvent("AlertDeactivated", update_id, zone, {})

UpdateStarted(update_id, zones) ==
    WeatherEvent("UpdateStarted", update_id, NoZone, zones)

AlertsReviewed(update_id) ==
    WeatherEvent("AlertsReviewed", update_id, NoZone, {})

UpdateLocationFailed(update_id, zone) ==
    WeatherEvent("UpdateLocationFailed", update_id, zone, {})

\* WeatherEvent::zones
EventZones(event) ==
    IF event.type = "UpdateStarted" THEN event.zones
    ELSE IF event.type = "AlertsReviewed" THEN {}
    ELSE {event.zone}

\* ------------------------------------------------------------------------
\* LocationUpdateStatus (update/status.rs)
\* ------------------------------------------------------------------------

UpdateStep == {"Observation", "Forecast", "Alert"}

InProgress(completed) == [kind |-> "InProgress", completed |-> completed]

Succeeded == [kind |-> "Succeeded", completed |-> {}]

Failed == [kind |-> "Failed", completed |-> {}]

\* sufficient_steps asking for every step, Alert included
sufficient_steps_every_step(completed) == UpdateStep \subseteq completed

sufficient_steps(completed) == {"Observation", "Forecast"} \subseteq completed

is_completed(s) ==
    IF s.kind = "InProgress" THEN sufficient_steps(s.completed) ELSE TRUE

is_active(s) == ~is_completed(s)

\* advance keeping the given step only
advance_forgets_steps(s, step) ==
    IF s.kind = "InProgress"
    THEN IF sufficient_steps({step}) THEN Succeeded ELSE InProgress({step})
    ELSE s

advance(s, step) ==
    IF s.kind = "InProgress"
    THEN LET new_completed == s.completed \cup {step}
         IN  IF sufficient_steps(new_completed)
             THEN Succeeded
             ELSE InProgress(new_completed)
    ELSE s

\* ------------------------------------------------------------------------
\* WeatherUpdateStatus (update/state.rs)
\* ------------------------------------------------------------------------

\* WeatherUpdateStatus::new
NewWeatherUpdateStatus(zones) ==
    [location_statuses |-> [z \in zones |-> InProgress({})],
     alerts_reviewed   |-> FALSE]

TrackedZones(st) == DOMAIN st.location_statuses

active_zones(st) ==
    {z \in TrackedZones(st) : st.location_statuses[z].kind = "InProgress"}

\* is_only_active_zone asking every zone, the given one included, to be
\* completed
is_only_active_zone_all(st, zone) ==
    /\ zone \in TrackedZones(st)
    /\ is_active(st.location_statuses[zone])
    /\ \A z \in TrackedZones(st) : is_completed(st.location_statuses[z])

is_only_active_zone(st, zone) ==
    /\ zone \in TrackedZones(st)
    /\ is_active(st.location_statuses[zone])
    /\ \A z \in TrackedZones(st) \ {zone} : is_completed(st.location_statuses[z])

\* the map with the entry of zone set to s (insert / modify_by_zone)
WithZone(st, zone, s) ==
    [st EXCEPT !.location_statuses =
        [z \in TrackedZones(st) \cup {zone} |->
            IF z = zone THEN s ELSE st.location_statuses[z]]]

\* prep_zone: the status it leaves and the discriminant it returns, if any
prep_zone(st, zone) ==
    IF zone \notin TrackedZones(st)
    THEN [status |-> WithZone(st, zone, InProgress({})), result |-> "None"]
    ELSE IF is_completed(st.location_statuses[zone])
         THEN [status |-> st, result |-> "Finished"]
         ELSE [status |-> st, result |-> "None"]

advance_zone_step(st, zone, step) ==
    LET prep == prep_zone(st, zone)
    IN  IF prep.result = "Finished"
        THEN [status |-> prep.status, tag |-> "Finished"]
        ELSE LET only   == is_only_active_zone(prep.status, zone)
                 ls     == advance(prep.status.location_statuses[zone], step)
                 after  == WithZone(prep.status, zone, ls)
                 is_completed_saga ==
                     after.alerts_reviewed /\ only /\ is_completed(ls)
             IN  [status |-> after,
                  tag    |-> IF is_completed_saga THEN "Finished" ELSE "Active"]

\* update_zone_failure_for never completing the saga
update_zone_failure_for_stays_active(st, zone) ==
    [status |-> WithZone(prep_zone(st, zone).status, zone, Failed), tag |-> "Active"]

update_zone_failure_for(st, zone) ==
    LET prep == prep_zone(st, zone)
    IN  IF prep.result = "Finished"
        THEN [status |-> prep.status, tag |-> "Finished"]
        ELSE LET only  == is_only_active_zone(prep.status, zone)
                 after == WithZone(prep.status, zone, Failed)
                 is_completed_saga == after.alerts_reviewed /\ only
             IN  [status |-> after,
                  tag    |-> IF is_completed_saga THEN "Finished" ELSE "Active"]

\* WeatherUpdateStatus::mutate: the mutated status and the returned
\* UpdateWeatherStateDiscriminants
StatusMutate(st, event) ==
    CASE event.type = "ObservationUpdated" ->
            advance_zone_step(st, event.zone, "Observation")
      [] event.type = "ForecastUpdated" ->
            advance_zone_step(st, event.zone, "Forecast")
      [] event.type \in {"AlertActivated", "AlertDeactivated"} ->
            advance_zone_step(st, event.zone, "Alert")
      [] event.type = "AlertsReviewed" ->
            LET after == [st EXCEPT !.alerts_reviewed = TRUE]
            IN  [status |-> after,
                 tag    |-> IF active_zones(after) = {}
                            THEN "Finished" ELSE "Active"]
      [] event.type = "UpdateLocationFailed" ->
            update_zone_failure_for(st, event.zone)
      [] OTHER -> [status |-> st, tag |-> "Active"]

\* ------------------------------------------------------------------------
\* UpdateWeatherState, the saga aggregate (update/state.rs)
\* ------------------------------------------------------------------------

\* the unit structs carry no status; the field holds an empty one
Quiescent == [tag |-> "Quiescent", status |-> NewWeatherUpdateStatus({})]

Active(st) == [tag |-> "Active", status |-> st]

Finished == [tag |-> "Finished", status |-> NewWeatherUpdateStatus({})]

QuiescentMutate(state, event) ==
    IF event.type = "UpdateStarted"
    THEN Active(NewWeatherUpdateStatus(event.zones))
    ELSE state

\* FinishedWeatherUpdate::mutate starting the update again on UpdateStarted
FinishedMutate_restarts(state, event) ==
    IF event.type = "UpdateStarted"
    THEN Active(NewWeatherUpdateStatus(event.zones))
    ELSE state

FinishedMutate(state, event) == state

\* UpdateWeather::mutate with UpdateWeatherState::mutate
StateMutate(state, event) ==
    CASE state.tag = "Quiescent" -> QuiescentMutate(state, event)
      [] state.tag = "Active" ->
            LET r == StatusMutate(state.status, event)
            IN  IF r.tag = "Finished" THEN Finished ELSE Active(r.status)
      [] OTHER -> FinishedMutate(state, event)

\* the state query of UpdateWeather: every WeatherEvent tagged with update_id
UpdateWeatherQuery(event, update_id) == event.update_id = update_id

RECURSIVE UpdateWeatherAfter(_, _, _)
\* the aggregate of update_id once the first n events of lg are applied; the
\* state before an event is bound as a value, so that it is computed once
UpdateWeatherAfter(lg, n, update_id) ==
    IF n = 0 THEN Quiescent
    ELSE LET Applied(before) ==
                 IF UpdateWeatherQuery(lg[n], update_id)
                 THEN StateMutate(before, lg[n])
                 ELSE before
         IN  CHOOSE after \in
                 {Applied(before) :
                     before \in {UpdateWeatherAfter(lg, n - 1, update_id)}} : TRUE

\* the aggregate of update_id rebuilt from the events of lg
UpdateWeather(lg, update_id) == UpdateWeatherAfter(lg, Len(lg), update_id)

\* ------------------------------------------------------------------------
\* The alert slice of a zone (zone/state.rs)
\* ------------------------------------------------------------------------

\* the state query of the three zone slices: LocationZoneEvent tagged with zone
LocationZoneQuery(event, zone) ==
    event.type \in LocationZoneEvent /\ event.zone = zone

RECURSIVE LocationZoneAlertAfter(_, _, _)
\* LocationZoneAlert once the first n events of lg are applied; TRUE when it
\* holds an alert (active_alert)
LocationZoneAlertAfter(lg, n, zone) ==
    IF n = 0 THEN FALSE
    ELSE IF LocationZoneQuery(lg[n], zone) /\ lg[n].type = "AlertActivated"
    THEN TRUE
    ELSE IF LocationZoneQuery(lg[n], zone) /\ lg[n].type = "AlertDeactivated"
    THEN FALSE
    ELSE LocationZoneAlertAfter(lg, n - 1, zone)

\* LocationZoneAlert rebuilt from the events of lg
LocationZoneAlert(lg, zone) == LocationZoneAlertAfter(lg, Len(lg), zone)

\* ------------------------------------------------------------------------
\* Decisions: process of each command (update/protocol.rs, zone/protocol.rs)
\* ------------------------------------------------------------------------

Ok(events) == [ok |-> TRUE, events |-> events, error |-> "-"]

Err(error) == [ok |-> FALSE, events |-> <<>>, error |-> error]

\* NoteAlertsReviewed::process rejecting only the Quiescent state
NoteAlertsReviewedProcess_unless_quiescent(state, update_id) ==
    IF state.tag = "Quiescent"
    THEN Err("NotStarted")
    ELSE Ok(<<AlertsReviewed(update_id)>>)

NoteAlertsReviewedProcess(state, update_id) ==
    CASE state.tag = "Active"    -> Ok(<<AlertsReviewed(update_id)>>)
      [] state.tag = "Quiescent" -> Err("NotStarted")
      [] OTHER                   -> Err("Finished")

\* NoteLocationUpdateFailure::process rejecting only the Finished state
NoteLocationUpdateFailureProcess_unless_finished(state, update_id, zone) ==
    IF state.tag = "Finished"
    THEN Err("Finished")
    ELSE Ok(<<UpdateLocationFailed(update_id, zone)>>)

NoteLocationUpdateFailureProcess(state, update_id, zone) ==
    CASE state.tag = "Active"    -> Ok(<<UpdateLocationFailed(update_id, zone)>>)
      [] state.tag = "Quiescent" -> Err("NotStarted")
      [] OTHER                   -> Err("Finished")

\* StartUpdate::new: the command is made of a zone list that is not empty
StartUpdateNew(zones) ==
    IF zones = {} THEN Err("NoLocations") ELSE Ok(<<>>)

\* StartUpdate::process accepting every state
StartUpdateEvents_any_state(state, update_id, zones) ==
    Ok(<<UpdateStarted(update_id, zones)>>)

\* the events StartUpdate::process returns (its spawning of the tasks is
\* the action StartUpdateProcess)
StartUpdateEvents(state, update_id, zones) ==
    IF state.tag = "Quiescent"
    THEN Ok(<<UpdateStarted(update_id, zones)>>)
    ELSE Err("AlreadyStarted")

NoteObservationProcess(zone, update_id) ==
    Ok(<<ObservationUpdated(zone, update_id)>>)

NoteForecastProcess(zone, update_id) ==
    Ok(<<ForecastUpdated(zone, update_id)>>)

\* NoteAlert::process without the look at the state
NoteAlertProcess_stateless(active_alert, zone, update_id, alert) ==
    IF alert
    THEN Ok(<<AlertActivated(zone, update_id)>>)
    ELSE Ok(<<AlertDeactivated(zone, update_id)>>)

\* alert is TRUE for Some(alert), FALSE for None
NoteAlertProcess(active_alert, zone, update_id, alert) ==
    IF ~active_alert /\ alert THEN Ok(<<AlertActivated(zone, update_id)>>)
    ELSE IF active_alert /\ ~alert THEN Ok(<<AlertDeactivated(zone, update_id)>>)
    ELSE Ok(<<>>)

\* ------------------------------------------------------------------------
\* update_weather_history projection (update/read_model.rs)
\* ------------------------------------------------------------------------

\* Serialize for LocationUpdateStatus
SerializeLocationUpdateStatus(s) ==
    CASE s.kind = "Succeeded" -> [status |-> "succeeded", completed |-> <<>>]
      [] s.kind = "Failed"    -> [status |-> "failed", completed |-> <<>>]
      [] OTHER ->
            [status    |-> "in_progress",
             completed |-> SelectSeq(<<"Observation", "Forecast", "Alert">>,
                                    LAMBDA x : x \in s.completed)]

RECURSIVE AdvanceAll(_, _)
AdvanceAll(wip, steps) ==
    IF steps = <<>> THEN wip
    ELSE AdvanceAll(advance(wip, Head(steps)), Tail(steps))

\* Deserialize for LocationUpdateStatus (visit_map)
DeserializeLocationUpdateStatus(rep) ==
    CASE rep.status = "succeeded" -> Succeeded
      [] rep.status = "failed"    -> Failed
      [] OTHER                    -> AdvanceAll(InProgress({}), rep.completed)

\* serde_json::to_value of a WeatherUpdateStatus
SerializeStatus(st) ==
    [location_statuses |->
        [z \in TrackedZones(st) |->
            SerializeLocationUpdateStatus(st.location_statuses[z])],
     alerts_reviewed |-> st.alerts_reviewed]

\* serde_json::from_str in UpdateWeatherStatusView::from_row
DeserializeStatus(blob) ==
    [location_statuses |->
        [z \in DOMAIN blob.location_statuses |->
            DeserializeLocationUpdateStatus(blob.location_statuses[z])],
     alerts_reviewed |-> blob.alerts_reviewed]

\* the state column: Display and from_str of UpdateWeatherStateDiscriminants
EncodeDiscriminant(tag) ==
    CASE tag = "Active"   -> "Active"
      [] tag = "Finished" -> "Finished"
      [] OTHER            -> "Quiescent"

NoRows == [u \in {} |-> 0]

\* update_or_insert: INSERT .. ON CONFLICT (update_id) DO UPDATE of the
\* columns given; state = "None" stands for Option::None
update_or_insert(tbl, update_id, state, status) ==
    LET old == IF update_id \in DOMAIN tbl
               THEN tbl[update_id]
               ELSE [state |-> "NULL", update_statuses |-> SerializeStatus(status)]
        row == [state |-> IF state = "None" THEN old.state
                          ELSE EncodeDiscriminant(state),
                update_statuses |-> SerializeStatus(status)]
    IN  [u \in DOMAIN tbl \cup {update_id} |->
            IF u = update_id THEN row ELSE tbl[u]]

\* started leaving the row of a restarted update as it is
started_keeps_row(tbl, update_id, zones) ==
    IF update_id \in DOMAIN tbl THEN tbl
    ELSE update_or_insert(tbl, update_id, "Active", NewWeatherUpdateStatus(zones))

\* UpdateWeatherHistoryProjection::started
started(tbl, update_id, zones) ==
    update_or_insert(tbl, update_id, "Active", NewWeatherUpdateStatus(zones))

\* handle dropping an event of an update that has no row
ProjectionHandle_drops_rowless(tbl, event) ==
    IF event.type = "UpdateStarted"
    THEN started(tbl, event.update_id, event.zones)
    ELSE IF event.update_id \in DOMAIN tbl
    THEN update_or_insert(tbl, event.update_id,
            StatusMutate(DeserializeStatus(tbl[event.update_id].update_statuses), event).tag,
            StatusMutate(DeserializeStatus(tbl[event.update_id].update_statuses), event).status)
    ELSE tbl

\* UpdateWeatherHistoryProjection::handle
ProjectionHandle(tbl, event) ==
    LET update_id == event.update_id
        Mutated(st) == StatusMutate(st, event)
        Updated(view, r) ==
            update_or_insert(tbl, update_id,
                IF view.state # EncodeDiscriminant(r.tag) THEN r.tag ELSE "None",
                r.status)
        Inserted(r) == update_or_insert(tbl, update_id, r.tag, r.status)
    IN  IF event.type = "UpdateStarted"
        THEN started(tbl, update_id, event.zones)
        ELSE IF update_id \in DOMAIN tbl
        THEN CHOOSE rows \in
                {Updated(tbl[update_id], r) :
                    r \in {Mutated(st) :
                        st \in {DeserializeStatus(tbl[update_id].update_statuses)}}} :
                TRUE
        ELSE CHOOSE rows \in
                {Inserted(r) :
                    r \in {Mutated(st) :
                        st \in {NewWeatherUpdateStatus(EventZones(event))}}} :
                TRUE

RECURSIVE Replay(_, _)
\* the table after the listener delivered the events of lg, in order
Replay(tbl, lg) ==
    IF lg = <<>> THEN tbl
    ELSE Replay(ProjectionHandle(tbl, Head(lg)), Tail(lg))

\* ------------------------------------------------------------------------
\* State of the running system
\* ------------------------------------------------------------------------

VARIABLES
    log,        \* the event log: the sequence of persisted WeatherEvents
    su,         \* the StartUpdate command inside DecisionMaker::make
    fetch,      \* the observe / forecast tasks, by <<spawn, kind, zone>>
    alerts,     \* the alerts task (do_update_zone_alerts) of each spawn
    issued,     \* the commands the tasks have handed to the decision maker
    table,      \* update_weather_history: update_id -> row
    checkpoint, \* number of log events the history projection has handled
    failure,    \* a provider call or an append has failed so far
    makes,      \* the commands of the clients inside DecisionMaker::make
    aggregations, \* the property details folded and their QuantitativeAggregation
    shutdown,   \* the shutdown signal has been raised
    monitored,  \* MonitoredLocationZones: its zones and the registrar events handled
    zone_weather \* the zone_weather table and the events its projection has handled

vars == <<log, su, fetch, alerts, issued, table, checkpoint, failure, makes, aggregations, shutdown, monitored, zone_weather>>

\* the attempts the decision engine gives StartUpdate: the first and, after
\* a conflict, one more
Attempts == <<"first", "retry">>

\* process spawns the tasks once in every attempt
Spawns == {Attempts[i] : i \in DOMAIN Attempts}

FetchKinds == {"observe", "forecast"}

FetchTasks == Spawns \X FetchKinds \X Zones

IdleStartUpdate ==
    [pc |-> "idle", zones |-> {}, version |-> 0, attempt |-> 0, spawned |-> 0,
     returned |-> "-"]

UnspawnedAlerts ==
    [pc |-> "unspawned", queue |-> <<>>, alerted |-> {}, todo |-> {},
     failures |-> {}, ftodo |-> {}, errors |-> FALSE, result |-> "-"]

\* Option: None is the empty set, Some(x) the set of x alone
None == {}

Some(x) == {x}

Option(S) == {None} \cup {Some(x) : x \in S}

unwrap(option) == CHOOSE x \in option : TRUE

unwrap_or(option, default) == IF option = None THEN default ELSE unwrap(option)

\* nothing folded yet: no detail seen, no entry for the property
NoAggregations == [details |-> <<>>, entry |-> None]

\* the callers of make that run concurrently
Clients == {"a", "b"}

\* a client outside make
IdleMake ==
    [pc |-> "idle", cmd |-> [kind |-> "-", zone |-> NoZone, alert |-> FALSE],
     version |-> 0, events |-> <<>>,
     attempt |-> 0, result |-> "-"]

Init ==
    /\ log = <<>>
    /\ su = IdleStartUpdate
    /\ fetch = [t \in FetchTasks |-> "unspawned"]
    /\ alerts = [g \in Spawns |-> UnspawnedAlerts]
    /\ issued = {}
    /\ table = NoRows
    /\ checkpoint = 0
    /\ failure = FALSE
    /\ makes = [c \in Clients |-> IdleMake]
    /\ aggregations = NoAggregations
    /\ shutdown = FALSE
    /\ monitored = [zones |-> {}, handled |-> 0]
    /\ zone_weather = [rows |-> NoRows, handled |-> 0]

\* a command a task handed to make, with what make returned: "Ok", the
\* domain error of process, or "Infra" for an error of the event store
Command(spawn, by, cmd, zone, alert, result) ==
    [spawn |-> spawn, by |-> by, cmd |-> cmd, zone |-> zone, alert |-> alert,
     result |-> result]

Result(r) == IF r.ok THEN "Ok" ELSE r.error

\* ------------------------------------------------------------------------
\* StartUpdate through the decision engine (update/mod.rs update_weather,
\* update/protocol.rs StartUpdate)
\* ------------------------------------------------------------------------

\* update_weather going on to make whatever the zone list
update_weather_unchecked(zones) ==
    [IdleStartUpdate EXCEPT !.pc = "load", !.zones = zones, !.attempt = 1]

\* update_weather(zones): Ok(None) at once for the empty zone list, else
\* StartUpdate::for_zones and the call of make
update_weather(zones) ==
    IF zones = {}
    THEN [IdleStartUpdate EXCEPT !.pc = "none", !.returned = "None"]
    ELSE [IdleStartUpdate EXCEPT !.pc = "load", !.zones = zones, !.attempt = 1]

\* the update_id update_weather finds in the events make persisted
\* (find_map over UpdateStarted)
started_update_id(events) ==
    IF \E i \in DOMAIN events : events[i].type = "UpdateStarted"
    THEN LET first == CHOOSE i \in DOMAIN events :
                         /\ events[i].type = "UpdateStarted"
                         /\ \A j \in 1 .. (i - 1) : events[j].type # "UpdateStarted"
         IN  events[first].update_id
    ELSE "None"

UpdateWeatherCall ==
    /\ su.pc = "idle"
    /\ \E zones \in SUBSET Zones : su' = update_weather(zones)
    /\ UNCHANGED <<log, fetch, alerts, issued, table, checkpoint, failure, makes, aggregations, shutdown, monitored, zone_weather>>

\* do_start_update: do_spawn_zone_updates and do_spawn_alerts
do_start_update(spawn, zones) ==
    /\ fetch' = [t \in FetchTasks |->
                    IF t[1] = spawn /\ t[3] \in zones THEN "ready" ELSE fetch[t]]
    /\ alerts' = [alerts EXCEPT ![spawn] = [UnspawnedAlerts EXCEPT !.pc = "fetch"]]

\* make, steps 1 and 2: the state is read and StartUpdate::process runs on it
StartUpdateProcess ==
    /\ su.pc = "load"
    /\ LET state == UpdateWeather(log, U)
           r     == StartUpdateEvents(state, U, su.zones)
       IN  IF r.ok
           THEN /\ do_start_update(Attempts[su.attempt], su.zones)
                /\ su' = [su EXCEPT !.pc = "append", !.version = Len(log),
                                    !.spawned = su.attempt]
           ELSE /\ su' = [su EXCEPT !.pc = "failed", !.returned = "Err"]
                /\ UNCHANGED <<fetch, alerts>>
    /\ UNCHANGED <<log, issued, table, checkpoint, failure, makes, aggregations, shutdown, monitored, zone_weather>>

\* an event matching the state query was recorded past the version read
Conflict(lg, version, update_id) ==
    \E i \in (version + 1) .. Len(lg) : UpdateWeatherQuery(lg[i], update_id)

\* make, steps 3 and 4: the append against the version read; a conflict is
\* retried from the read while attempts remain (with retries; else it is
\* surfaced).  With faults the append may also fail on a transport error
StartUpdateAppend(faults, retries) ==
    /\ su.pc = "append"
    /\ IF Conflict(log, su.version, U)
       THEN /\ su' = IF retries /\ su.attempt < Len(Attempts)
                     THEN [su EXCEPT !.pc = "load", !.attempt = su.attempt + 1]
                     ELSE [su EXCEPT !.pc = "failed", !.returned = "Err"]
            /\ failure' = TRUE
            /\ UNCHANGED log
       ELSE \/ /\ log' = Append(log, UpdateStarted(U, su.zones))
               /\ su' = [su EXCEPT !.pc = "done",
                                   !.returned = started_update_id(
                                                    <<UpdateStarted(U, su.zones)>>)]
               /\ UNCHANGED failure
            \/ /\ faults
               /\ su' = [su EXCEPT !.pc = "failed", !.returned = "Err"]
               /\ failure' = TRUE
               /\ UNCHANGED log
    /\ UNCHANGED <<fetch, alerts, issued, table, checkpoint, makes, aggregations, shutdown, monitored, zone_weather>>

\* ------------------------------------------------------------------------
\* observe and forecast tasks (zone/mod.rs)
\* ------------------------------------------------------------------------

\* zone::observe / zone::forecast of one spawned task: the provider call,
\* then make(NoteObservation) / make(NoteForecast); an error of either is
\* returned to the spawned future, which drops it.  With faults the
\* provider call and the make may fail
FetchZone(t, faults) ==
    LET spawn == t[1]
        kind  == t[2]
        zone  == t[3]
        cmd   == IF kind = "observe" THEN "NoteObservation" ELSE "NoteForecast"
        r     == IF kind = "observe"
                 THEN NoteObservationProcess(zone, U)
                 ELSE NoteForecastProcess(zone, U)
    IN  /\ fetch[t] = "ready"
        /\ \/ /\ faults
              /\ fetch' = [fetch EXCEPT ![t] = "provider_failed"]
              /\ failure' = TRUE
              /\ UNCHANGED <<log, issued>>
           \/ /\ log' = log \o r.events
              /\ issued' = issued \cup {Command(spawn, kind, cmd, zone, "-", Result(r))}
              /\ fetch' = [fetch EXCEPT ![t] = "ok"]
              /\ UNCHANGED failure
           \/ /\ faults
              /\ issued' = issued \cup {Command(spawn, kind, cmd, zone, "-", "Infra")}
              /\ fetch' = [fetch EXCEPT ![t] = "command_failed"]
              /\ failure' = TRUE
              /\ UNCHANGED log
        /\ UNCHANGED <<su, alerts, table, checkpoint, makes, aggregations, shutdown, monitored, zone_weather>>

\* ------------------------------------------------------------------------
\* alerts task (update/protocol.rs do_update_zone_alerts)
\* ------------------------------------------------------------------------

RECURSIVE DropEmpty(_)
DropEmpty(queue) ==
    IF queue = <<>> THEN <<>>
    ELSE IF Head(queue) = {} THEN DropEmpty(Tail(queue))
    ELSE queue

\* the task's position once the failures have been noted: the `?` on
\* do_note_alert_update_failures returns its error
AfterFailures(a) ==
    IF a.errors
    THEN [a EXCEPT !.pc = "done", !.result = "Err"]
    ELSE [a EXCEPT !.pc = "reviewed"]

\* the task's position once the unaffected zones are done, the failures
\* collected left aside
AfterUnaffected_drops_failures(a) ==
    AfterFailures([a EXCEPT !.ftodo = {}])

\* the task's position once the unaffected zones are done
AfterUnaffected(a) ==
    IF a.failures = {}
    THEN AfterFailures([a EXCEPT !.ftodo = {}])
    ELSE [a EXCEPT !.pc = "failures", !.ftodo = a.failures]

\* the task's position once the alerts are done, every zone of update_scope
\* taken as unaffected
AfterAffected_every_zone(a, update_scope) ==
    [a EXCEPT !.pc = "unaffected", !.todo = update_scope]

\* the task's position once the alerts are done: update_scope.difference
AfterAffected(a, update_scope) ==
    LET unaffected_zones == update_scope \ a.alerted
    IN  IF unaffected_zones = {}
        THEN AfterUnaffected([a EXCEPT !.todo = {}])
        ELSE [a EXCEPT !.pc = "unaffected", !.todo = unaffected_zones]

\* the task's position in the loop over the alerts
InAlerts(a, update_scope) ==
    LET queue == DropEmpty(a.queue)
    IN  IF queue = <<>>
        THEN AfterAffected([a EXCEPT !.queue = <<>>], update_scope)
        ELSE [a EXCEPT !.pc = "affected", !.queue = queue]

\* the affected lists of the alerts a fetch may return
AlertLists ==
    UNION {[1 .. n -> SUBSET Zones] : n \in 0 .. MaxAlerts}

\* the zones of an alert the task notes the alert for, all of them
affected_in_scope_unfiltered(affected_zones, update_scope) == affected_zones

\* the zones of an alert the task notes the alert for: the affected zones
\* filtered by update_scope.contains
affected_in_scope(affected_zones, update_scope) == affected_zones \cap update_scope

\* services.active_alerts().await?
AlertsFetch(spawn, faults) ==
    LET a == alerts[spawn]
    IN  /\ a.pc = "fetch"
        /\ \/ /\ faults
              /\ alerts' = [alerts EXCEPT ![spawn] =
                              [a EXCEPT !.pc = "done", !.result = "Err"]]
              /\ failure' = TRUE
           \/ /\ \E affected \in AlertLists :
                    alerts' = [alerts EXCEPT ![spawn] =
                        InAlerts([a EXCEPT !.queue =
                                    [i \in DOMAIN affected |->
                                        affected_in_scope(affected[i], su.zones)]],
                                 su.zones)]
              /\ UNCHANGED failure
        /\ UNCHANGED <<log, su, fetch, issued, table, checkpoint, makes, aggregations, shutdown, monitored, zone_weather>>

\* do_alert_affected_zones: zone::alert(.., Some(alert)) for the next zone
AlertsNoteAffected(spawn, faults) ==
    LET a == alerts[spawn]
    IN  /\ a.pc = "affected"
        /\ \E zone \in Head(a.queue) :
             LET r    == NoteAlertProcess(LocationZoneAlert(log, zone), zone, U, TRUE)
                 next == [a EXCEPT !.queue = <<Head(a.queue) \ {zone}>> \o Tail(a.queue),
                                   !.alerted = a.alerted \cup {zone}]
             IN  \/ /\ log' = log \o r.events
                    /\ issued' = issued \cup
                         {Command(spawn, "alerts", "NoteAlert", zone, "Some", Result(r))}
                    /\ alerts' = [alerts EXCEPT ![spawn] = InAlerts(next, su.zones)]
                    /\ UNCHANGED failure
                 \/ /\ faults
                    /\ issued' = issued \cup
                         {Command(spawn, "alerts", "NoteAlert", zone, "Some", "Infra")}
                    /\ alerts' = [alerts EXCEPT ![spawn] =
                              InAlerts([next EXCEPT !.failures = next.failures \cup {zone}],
                                       su.zones)]
                       /\ failure' = TRUE
                       /\ UNCHANGED log
        /\ UNCHANGED <<su, fetch, table, checkpoint, makes, aggregations, shutdown, monitored, zone_weather>>

\* do_update_unaffected_zones: zone::alert(.., None) for the next zone
AlertsNoteUnaffected(spawn, faults) ==
    LET a == alerts[spawn]
    IN  /\ a.pc = "unaffected"
        /\ \E zone \in a.todo :
             LET r    == NoteAlertProcess(LocationZoneAlert(log, zone), zone, U, FALSE)
                 next == [a EXCEPT !.todo = a.todo \ {zone}]
                 step(n) == IF n.todo = {} THEN AfterUnaffected(n) ELSE n
             IN  \/ /\ log' = log \o r.events
                    /\ issued' = issued \cup
                         {Command(spawn, "alerts", "NoteAlert", zone, "None", Result(r))}
                    /\ alerts' = [alerts EXCEPT ![spawn] = step(next)]
                    /\ UNCHANGED failure
                 \/ /\ faults
                    /\ issued' = issued \cup
                         {Command(spawn, "alerts", "NoteAlert", zone, "None", "Infra")}
                    /\ alerts' = [alerts EXCEPT ![spawn] =
                              step([next EXCEPT !.failures = next.failures \cup {zone}])]
                       /\ failure' = TRUE
                       /\ UNCHANGED log
        /\ UNCHANGED <<su, fetch, table, checkpoint, makes, aggregations, shutdown, monitored, zone_weather>>

\* do_note_alert_update_failures: note_zone_update_failure for the next zone
AlertsNoteFailure(spawn, faults) ==
    LET a == alerts[spawn]
    IN  /\ a.pc = "failures"
        /\ \E zone \in a.ftodo :
             LET r    == NoteLocationUpdateFailureProcess(UpdateWeather(log, U), U, zone)
                 next == [a EXCEPT !.ftodo = a.ftodo \ {zone}]
                 step(n) == IF n.ftodo = {} THEN AfterFailures(n) ELSE n
             IN  \/ /\ log' = log \o r.events
                    /\ issued' = issued \cup
                         {Command(spawn, "alerts", "NoteLocationUpdateFailure", zone,
                                  "-", Result(r))}
                    /\ alerts' = [alerts EXCEPT ![spawn] =
                           step([next EXCEPT !.errors = next.errors \/ ~r.ok])]
                    /\ UNCHANGED failure
                 \/ /\ faults
                    /\ issued' = issued \cup
                         {Command(spawn, "alerts", "NoteLocationUpdateFailure", zone,
                                  "-", "Infra")}
                    /\ alerts' = [alerts EXCEPT ![spawn] =
                              step([next EXCEPT !.errors = TRUE])]
                       /\ failure' = TRUE
                       /\ UNCHANGED log
        /\ UNCHANGED <<su, fetch, table, checkpoint, makes, aggregations, shutdown, monitored, zone_weather>>

\* super::note_alerts_updated(update_id, ..).await?
AlertsNoteReviewed(spawn, faults) ==
    LET a == alerts[spawn]
        r == NoteAlertsReviewedProcess(UpdateWeather(log, U), U)
    IN  /\ a.pc = "reviewed"
        /\ \/ /\ log' = log \o r.events
              /\ issued' = issued \cup
                   {Command(spawn, "alerts", "NoteAlertsReviewed", NoZone, "-", Result(r))}
              /\ alerts' = [alerts EXCEPT ![spawn] =
                     [a EXCEPT !.pc = "done",
                               !.result = IF r.ok THEN "Ok" ELSE "Err"]]
              /\ UNCHANGED failure
           \/ /\ faults
              /\ issued' = issued \cup
                   {Command(spawn, "alerts", "NoteAlertsReviewed", NoZone, "-", "Infra")}
              /\ alerts' = [alerts EXCEPT ![spawn] =
                     [a EXCEPT !.pc = "done", !.result = "Err"]]
              /\ failure' = TRUE
              /\ UNCHANGED log
        /\ UNCHANGED <<su, fetch, table, checkpoint, makes, aggregations, shutdown, monitored, zone_weather>>

\* ------------------------------------------------------------------------
\* The history projection's listener
\* ------------------------------------------------------------------------

\* the listener delivers the next event of the log to handle
ProjectionStep ==
    /\ checkpoint < Len(log)
    /\ table' = ProjectionHandle(table, log[checkpoint + 1])
    /\ checkpoint' = checkpoint + 1
    /\ UNCHANGED <<log, su, fetch, alerts, issued, failure, makes, aggregations, shutdown, monitored, zone_weather>>

\* ------------------------------------------------------------------------
\* The system
\* ------------------------------------------------------------------------

StartUpdateStep(faults, retries) ==
    StartUpdateProcess \/ StartUpdateAppend(faults, retries)

FetchStep(faults) == \E t \in FetchTasks : FetchZone(t, faults)

AlertsStep(faults) ==
    \E spawn \in Spawns :
        \/ AlertsFetch(spawn, faults)
        \/ AlertsNoteAffected(spawn, faults)
        \/ AlertsNoteUnaffected(spawn, faults)
        \/ AlertsNoteFailure(spawn, faults)
        \/ AlertsNoteReviewed(spawn, faults)

\* the commands and the orchestration, with a provider and an event store
\* that may fail
Next ==
    \/ UpdateWeatherCall
    \/ StartUpdateStep(TRUE, FALSE)
    \/ FetchStep(TRUE)
    \/ AlertsStep(TRUE)

Spec == Init /\ [][Next]_vars

\* the runtime schedules every spawned task and the decision engine
\* finishes every make
FairSpec ==
    /\ Spec
    /\ WF_vars(StartUpdateStep(TRUE, FALSE))
    /\ WF_vars(FetchStep(TRUE))
    /\ WF_vars(AlertsStep(TRUE))

\* shutdown(): ctrl_c is received; the listeners and the server are started
\* with it, the tasks do_start_update spawns are not handed it
ShutdownSignal ==
    /\ ~shutdown
    /\ shutdown' = TRUE
    /\ UNCHANGED <<log, su, fetch, alerts, issued, table, checkpoint, failure, makes,
                   aggregations, monitored, zone_weather>>

\* the commands and the orchestration while the shutdown signal may be raised
ShutdownNext ==
    \/ UpdateWeatherCall
    \/ StartUpdateStep(TRUE, FALSE)
    \/ FetchStep(TRUE)
    \/ AlertsStep(TRUE)
    \/ ShutdownSignal

ShutdownSpec == Init /\ [][ShutdownNext]_vars

\* the alerts task when no command fails: update_failures stays empty and
\* do_note_alert_update_failures has nothing to note
ReliableAlertsStep ==
    \E spawn \in Spawns :
        \/ AlertsFetch(spawn, FALSE)
        \/ AlertsNoteAffected(spawn, FALSE)
        \/ AlertsNoteUnaffected(spawn, FALSE)
        \/ AlertsNoteReviewed(spawn, FALSE)

\* StartUpdate retried by the decision engine after a conflict, and the
\* observe and forecast tasks it spawns, with a provider and an event store
\* that do not fail otherwise; the alerts tasks are spawned and not scheduled
RetryNext ==
    \/ UpdateWeatherCall
    \/ StartUpdateStep(FALSE, TRUE)
    \/ FetchStep(FALSE)

RetrySpec == Init /\ [][RetryNext]_vars

\* StartUpdate retried after a conflict, its observe and forecast tasks, and
\* the listener of the history projection
RetryHistoryNext ==
    \/ RetryNext
    \/ ProjectionStep

RetryHistorySpec == Init /\ [][RetryHistoryNext]_vars

\* the orchestration with a provider and an event store that do not fail,
\* and the listener of the history projection
HistoryNext ==
    \/ UpdateWeatherCall
    \/ StartUpdateStep(FALSE, FALSE)
    \/ FetchStep(FALSE)
    \/ ReliableAlertsStep
    \/ ProjectionStep

HistorySpec == Init /\ [][HistoryNext]_vars

HistoryFairSpec ==
    /\ HistorySpec
    /\ WF_vars(StartUpdateStep(FALSE, FALSE))
    /\ WF_vars(FetchStep(FALSE))
    /\ WF_vars(ReliableAlertsStep)
    /\ WF_vars(ProjectionStep)

\* ------------------------------------------------------------------------
\* The saga's decisions on their own: after UpdateStarted, the commands of
\* the update are made one after the other in any order (the state is read,
\* process runs, its events are appended)
\* ------------------------------------------------------------------------

SagaInit ==
    /\ \E zones \in SUBSET Zones \ {{}} :
         /\ log = <<UpdateStarted(U, zones)>>
         /\ su = [IdleStartUpdate EXCEPT !.pc = "done", !.zones = zones]
    /\ fetch = [t \in FetchTasks |-> "unspawned"]
    /\ alerts = [g \in Spawns |-> UnspawnedAlerts]
    /\ issued = {}
    /\ table = NoRows
    /\ checkpoint = 0
    /\ failure = FALSE
    /\ makes = [c \in Clients |-> IdleMake]
    /\ aggregations = NoAggregations
    /\ shutdown = FALSE
    /\ monitored = [zones |-> {}, handled |-> 0]
    /\ zone_weather = [rows |-> NoRows, handled |-> 0]

\* make(decision): the events of r are appended; issued keeps the command
\* make returned from last
Make(cmd, zone, alert, r) ==
    /\ Len(log) + Len(r.events) <= MaxEvents
    /\ log' = log \o r.events
    /\ issued' = {Command("-", "client", cmd, zone, alert, Result(r))}
    /\ UNCHANGED <<su, fetch, alerts, table, checkpoint, failure, makes, aggregations, shutdown, monitored, zone_weather>>

MakeStartUpdate ==
    Make("StartUpdate", NoZone, "-",
         StartUpdateEvents(UpdateWeather(log, U), U, su.zones))

MakeNoteObservation ==
    \E zone \in su.zones :
        Make("NoteObservation", zone, "-", NoteObservationProcess(zone, U))

MakeNoteForecast ==
    \E zone \in su.zones :
        Make("NoteForecast", zone, "-", NoteForecastProcess(zone, U))

MakeNoteAlert ==
    \E zone \in su.zones, alert \in BOOLEAN :
        Make("NoteAlert", zone, IF alert THEN "Some" ELSE "None",
             NoteAlertProcess(LocationZoneAlert(log, zone), zone, U, alert))

MakeNoteAlertsReviewed ==
    Make("NoteAlertsReviewed", NoZone, "-",
         NoteAlertsReviewedProcess(UpdateWeather(log, U), U))

MakeNoteLocationUpdateFailure ==
    \E zone \in su.zones :
        Make("NoteLocationUpdateFailure", zone, "-",
             NoteLocationUpdateFailureProcess(UpdateWeather(log, U), U, zone))

SagaNext ==
    \/ MakeStartUpdate
    \/ MakeNoteObservation
    \/ MakeNoteForecast
    \/ MakeNoteAlert
    \/ MakeNoteAlertsReviewed
    \/ MakeNoteLocationUpdateFailure

SagaSpec == SagaInit /\ [][SagaNext]_vars

\* ------------------------------------------------------------------------
\* StartUpdate made by a client for any zone list, the empty one included,
\* among the other commands of the update
\* ------------------------------------------------------------------------

\* StartUpdate::new(U, zones) and, when it returns a command, make of it:
\* process runs on the state read and spawns the tasks before it returns
\* UpdateStarted; su.zones keeps the zone list given
StartUpdateMade ==
    \E zones \in SUBSET Zones :
        LET new == StartUpdateNew(zones)
            r   == IF new.ok
                   THEN StartUpdateEvents(UpdateWeather(log, U), U, zones)
                   ELSE new
        IN  /\ Len(log) + Len(r.events) <= MaxEvents
            /\ log' = log \o r.events
            /\ issued' = {Command("-", "client", "StartUpdate", NoZone, "-", Result(r))}
            /\ su' = [su EXCEPT !.zones = zones]
            /\ IF r.ok
               THEN do_start_update(Attempts[1], zones)
               ELSE UNCHANGED <<fetch, alerts>>
            /\ UNCHANGED <<table, checkpoint, failure, makes, aggregations, shutdown, monitored, zone_weather>>

\* NoteLocationUpdateFailure made by a client for any zone
NoteLocationUpdateFailureMade ==
    \E zone \in Zones :
        Make("NoteLocationUpdateFailure", zone, "-",
             NoteLocationUpdateFailureProcess(UpdateWeather(log, U), U, zone))

\* the commands that take the saga from Active to Finished are made as well
StartNext ==
    \/ StartUpdateMade
    \/ MakeNoteObservation
    \/ MakeNoteForecast
    \/ MakeNoteAlertsReviewed
    \/ NoteLocationUpdateFailureMade

StartSpec == Init /\ [][StartNext]_vars

\* ------------------------------------------------------------------------
\* The registrar (registrar/state.rs, registrar/protocol.rs): one stream of
\* RegistrarEvent, reduced into the set of monitored zones
\* ------------------------------------------------------------------------

RegistrarEvent == {"ForecastZoneAdded", "ForecastZoneRemoved", "AllForecastZonesRemoved"}

ForecastZoneAdded(zone) == WeatherEvent("ForecastZoneAdded", "-", zone, {})

ForecastZoneRemoved(zone) == WeatherEvent("ForecastZoneRemoved", "-", zone, {})

AllForecastZonesRemoved == WeatherEvent("AllForecastZonesRemoved", "-", NoZone, {})

\* the state query of Registrar: every registrar event, no identifier
RegistrarQuery(event) == event.type \in RegistrarEvent

\* StateMutate of Registrar on its location_codes
RegistrarMutate(location_codes, event) ==
    CASE event.type = "ForecastZoneAdded"   -> location_codes \cup {event.zone}
      [] event.type = "ForecastZoneRemoved" -> location_codes \ {event.zone}
      [] OTHER                              -> {}

RECURSIVE RegistrarAfter(_, _)
\* location_codes of Registrar once the first n events of lg are applied
RegistrarAfter(lg, n) ==
    IF n = 0 THEN {}
    ELSE IF RegistrarQuery(lg[n])
    THEN RegistrarMutate(RegistrarAfter(lg, n - 1), lg[n])
    ELSE RegistrarAfter(lg, n - 1)

Registrar(lg) == RegistrarAfter(lg, Len(lg))

\* MonitorForecastZone::process without the check of location_codes
MonitorForecastZoneProcess_unchecked(location_codes, zone) ==
    Ok(<<ForecastZoneAdded(zone)>>)

\* MonitorForecastZone::process taking a monitored zone as a no-op
MonitorForecastZoneProcess_no_op(location_codes, zone) ==
    IF zone \in location_codes
    THEN Ok(<<>>)
    ELSE Ok(<<ForecastZoneAdded(zone)>>)

MonitorForecastZoneProcess(location_codes, zone) ==
    IF zone \in location_codes
    THEN Err("LocationZoneAlreadyMonitored")
    ELSE Ok(<<ForecastZoneAdded(zone)>>)

\* IgnoreForecastZone::process without the check of location_codes
IgnoreForecastZoneProcess_unchecked(location_codes, zone) ==
    Ok(<<ForecastZoneRemoved(zone)>>)

IgnoreForecastZoneProcess(location_codes, zone) ==
    IF zone \in location_codes
    THEN Ok(<<ForecastZoneRemoved(zone)>>)
    ELSE Ok(<<>>)

\* ClearZoneMonitoring::process without the check of location_codes
ClearZoneMonitoringProcess_unchecked(location_codes) ==
    Ok(<<AllForecastZonesRemoved>>)

ClearZoneMonitoringProcess(location_codes) ==
    IF location_codes # {}
    THEN Ok(<<AllForecastZonesRemoved>>)
    ELSE Ok(<<>>)

\* ------------------------------------------------------------------------
\* Commands made concurrently (spec 4.1, 4.2): each client reads the events
\* of its command's state query, runs process on the state, and appends
\* against the version it read; the log is the event store of the decision
\* maker the clients share
\* ------------------------------------------------------------------------

\* the most events the clients append
MaxMakes == 3

RegistrarCommandKinds ==
    {"MonitorForecastZone", "IgnoreForecastZone", "ClearZoneMonitoring"}

\* the state query of a command: the events its state is derived from and
\* its append is validated against
StateQueryOf(cmd, event) ==
    CASE cmd.kind = "NoteObservation" -> LocationZoneQuery(event, cmd.zone)
      [] cmd.kind = "NoteForecast"    -> LocationZoneQuery(event, cmd.zone)
      [] cmd.kind = "NoteAlert"       -> LocationZoneQuery(event, cmd.zone)
      [] cmd.kind \in RegistrarCommandKinds -> RegistrarQuery(event)
      [] OTHER                        -> UpdateWeatherQuery(event, U)

\* process of a command on the state rebuilt from lg
ProcessOf(cmd, lg) ==
    CASE cmd.kind = "NoteObservation" -> NoteObservationProcess(cmd.zone, U)
      [] cmd.kind = "NoteForecast"    -> NoteForecastProcess(cmd.zone, U)
      [] cmd.kind = "NoteAlert" ->
            NoteAlertProcess(LocationZoneAlert(lg, cmd.zone), cmd.zone, U, cmd.alert)
      [] cmd.kind = "NoteAlertsReviewed" ->
            NoteAlertsReviewedProcess(UpdateWeather(lg, U), U)
      [] cmd.kind = "MonitorForecastZone" ->
            MonitorForecastZoneProcess(Registrar(lg), cmd.zone)
      [] cmd.kind = "IgnoreForecastZone" ->
            IgnoreForecastZoneProcess(Registrar(lg), cmd.zone)
      [] cmd.kind = "ClearZoneMonitoring" ->
            ClearZoneMonitoringProcess(Registrar(lg))
      [] OTHER ->
            NoteLocationUpdateFailureProcess(UpdateWeather(lg, U), U, cmd.zone)

\* an event matching the state query of cmd was recorded past version
MakeConflict(lg, version, cmd) ==
    \E i \in (version + 1) .. Len(lg) : StateQueryOf(cmd, lg[i])

\* a client calls make with one of cmds
MakeCall(c, cmds) ==
    /\ makes[c].pc = "idle"
    /\ \E cmd \in cmds :
         makes' = [makes EXCEPT ![c] =
                     [IdleMake EXCEPT !.pc = "load", !.cmd = cmd, !.attempt = 1]]
    /\ UNCHANGED <<log, su, fetch, alerts, issued, table, checkpoint, failure,
                   aggregations, shutdown, monitored, zone_weather>>

\* make, steps 1 and 2: the read of the state and process; a domain error
\* is surfaced
MakeLoad(c) ==
    /\ makes[c].pc = "load"
    /\ \E r \in {ProcessOf(makes[c].cmd, log)} :
         makes' = [makes EXCEPT ![c] =
                     IF r.ok
                     THEN [@ EXCEPT !.pc = "append", !.version = Len(log),
                                    !.events = r.events]
                     ELSE [@ EXCEPT !.pc = "idle", !.result = r.error]]
    /\ UNCHANGED <<log, su, fetch, alerts, issued, table, checkpoint, failure,
                   aggregations, shutdown, monitored, zone_weather>>

\* make, steps 3 and 4: the append against the version read; a conflict is
\* retried from the read while attempts remain, then surfaced
MakeAppend(c) ==
    /\ makes[c].pc = "append"
    /\ Len(log) + Len(makes[c].events) <= MaxMakes
    /\ IF MakeConflict(log, makes[c].version, makes[c].cmd)
       THEN /\ makes' = [makes EXCEPT ![c] =
                           IF @.attempt < Len(Attempts)
                           THEN [@ EXCEPT !.pc = "load", !.attempt = @ + 1]
                           ELSE [@ EXCEPT !.pc = "idle", !.result = "Concurrency"]]
            /\ UNCHANGED log
       ELSE /\ log' = log \o makes[c].events
            /\ makes' = [makes EXCEPT ![c] = [@ EXCEPT !.pc = "idle", !.result = "Ok"]]
    /\ UNCHANGED <<su, fetch, alerts, issued, table, checkpoint, failure,
                   aggregations, shutdown, monitored, zone_weather>>

\* the zone whose slices the concurrent zone commands are about
TheZone == "otis"

NoteObservation(zone) == [kind |-> "NoteObservation", zone |-> zone, alert |-> FALSE]

NoteForecast(zone) == [kind |-> "NoteForecast", zone |-> zone, alert |-> FALSE]

NoteAlert(zone, alert) == [kind |-> "NoteAlert", zone |-> zone, alert |-> alert]

ZoneCommands ==
    {NoteObservation(TheZone), NoteForecast(TheZone)}
        \cup {NoteAlert(TheZone, alert) : alert \in BOOLEAN}

ZoneNext ==
    \E c \in Clients :
        \/ MakeCall(c, ZoneCommands)
        \/ MakeLoad(c)
        \/ MakeAppend(c)

\* the zone commands of an update made concurrently on one zone
ZoneSpec == Init /\ [][ZoneNext]_vars

MonitorForecastZone(zone) ==
    [kind |-> "MonitorForecastZone", zone |-> zone, alert |-> FALSE]

IgnoreForecastZone(zone) ==
    [kind |-> "IgnoreForecastZone", zone |-> zone, alert |-> FALSE]

ClearZoneMonitoring ==
    [kind |-> "ClearZoneMonitoring", zone |-> NoZone, alert |-> FALSE]

RegistrarCommands ==
    {MonitorForecastZone(zone) : zone \in Zones}
        \cup {IgnoreForecastZone(zone) : zone \in Zones}
        \cup {ClearZoneMonitoring}

RegistrarNext ==
    \E c \in Clients :
        \/ MakeCall(c, RegistrarCommands)
        \/ MakeLoad(c)
        \/ MakeAppend(c)

\* the registrar commands made concurrently
RegistrarSpec == Init /\ [][RegistrarNext]_vars

\* ------------------------------------------------------------------------
\* MonitoredLocationZones, the in-memory view of the monitored zones
\* (registrar/read_model.rs)
\* ------------------------------------------------------------------------

\* MonitoredLocationZones::handle on the zones behind the mutex
MonitoredHandle(my_zones, event) ==
    CASE event.type = "ForecastZoneAdded"   -> my_zones \cup {event.zone}
      [] event.type = "ForecastZoneRemoved" -> my_zones \ {event.zone}
      [] OTHER                              -> {}

\* the listener is handed the next event of the log; handle runs on the
\* events of its query, query!(RegistrarEvent) as that of Registrar
MonitoredZonesStep ==
    /\ monitored.handled < Len(log)
    /\ LET event == log[monitored.handled + 1]
       IN  monitored' =
             [zones   |-> IF RegistrarQuery(event)
                          THEN MonitoredHandle(monitored.zones, event)
                          ELSE monitored.zones,
              handled |-> monitored.handled + 1]
    /\ UNCHANGED <<log, su, fetch, alerts, issued, table, checkpoint, failure, makes,
                   aggregations, shutdown, zone_weather>>

\* the process is started again: RegistrarSupport::new builds the view with
\* MonitoredLocationZones::default and registers it under the listener id it
\* had, so the listener goes on from the position the event store keeps for
\* that id; the commands under way are gone with the process
Restart ==
    /\ monitored' = [zones |-> {}, handled |-> monitored.handled]
    /\ makes' = [c \in Clients |-> IdleMake]
    /\ UNCHANGED <<log, su, fetch, alerts, issued, table, checkpoint, failure,
                   aggregations, shutdown, zone_weather>>

\* the registrar commands made concurrently, the listener of the view and
\* the restart of the process
ViewNext ==
    \/ RegistrarNext
    \/ MonitoredZonesStep
    \/ Restart

ViewSpec == Init /\ [][ViewNext]_vars

\* ------------------------------------------------------------------------
\* ZoneWeatherProjection, the zone_weather table (zone/read_model.rs)
\* ------------------------------------------------------------------------

\* build_insert replacing the whole row on conflict
build_insert_every_column(rows, zone, values, set_columns) ==
    [z \in DOMAIN rows \cup {zone} |-> IF z = zone THEN values ELSE rows[z]]

\* build_insert: INSERT of values, ON CONFLICT (zone) DO UPDATE SET of the
\* columns of the update clause to the values excluded
build_insert(rows, zone, values, set_columns) ==
    LET row == IF zone \in DOMAIN rows
               THEN [column \in DOMAIN values |->
                        IF column \in set_columns
                        THEN values[column] ELSE rows[zone][column]]
               ELSE values
    IN  [z \in DOMAIN rows \cup {zone} |-> IF z = zone THEN row ELSE rows[z]]

update_or_insert_weather(rows, zone, weather, now) ==
    build_insert(rows, zone,
        [current |-> Some(weather), forecast |-> None, alert |-> None,
         last_updated_at |-> Some(now)],
        {"current", "last_updated_at"})

update_or_insert_forecast(rows, zone, forecast, now) ==
    build_insert(rows, zone,
        [current |-> None, forecast |-> Some(forecast), alert |-> None,
         last_updated_at |-> Some(now)],
        {"forecast", "last_updated_at"})

\* alert is an Option
update_or_insert_alert(rows, zone, alert, now) ==
    build_insert(rows, zone,
        [current |-> None, forecast |-> None, alert |-> alert,
         last_updated_at |-> Some(now)],
        {"alert", "last_updated_at"})

\* ZoneWeatherProjection::handle; payload is the frame, the forecast or the
\* alert the event carries
ZoneWeatherHandle(rows, event, payload, now) ==
    CASE event.type = "ObservationUpdated" ->
            update_or_insert_weather(rows, event.zone, payload, now)
      [] event.type = "ForecastUpdated" ->
            update_or_insert_forecast(rows, event.zone, payload, now)
      [] event.type = "AlertActivated" ->
            update_or_insert_alert(rows, event.zone, Some(payload), now)
      [] OTHER ->
            update_or_insert_alert(rows, event.zone, None, now)

\* the listener is handed the next event of the log; handle runs on the
\* events of its query, every LocationZoneEvent. The payload of an event is told from every other by
\* the position of the event, the time of the upsert by the events handled
ZoneWeatherStep ==
    /\ zone_weather.handled < Len(log)
    /\ LET at    == zone_weather.handled + 1
           event == log[at]
       IN  zone_weather' =
             [rows    |-> IF event.type \in LocationZoneEvent
                          THEN ZoneWeatherHandle(zone_weather.rows, event, at, at)
                          ELSE zone_weather.rows,
              handled |-> at]
    /\ UNCHANGED <<log, su, fetch, alerts, issued, table, checkpoint, failure, makes,
                   aggregations, shutdown, monitored>>

\* the zone commands of an update made one after the other on its zones, and
\* the listener of the projection
ZoneWeatherNext ==
    \/ MakeNoteObservation
    \/ MakeNoteForecast
    \/ MakeNoteAlert
    \/ ZoneWeatherStep

ZoneWeatherSpec == SagaInit /\ [][ZoneWeatherNext]_vars

\* ------------------------------------------------------------------------
\* The events of one update applied to the aggregate in every order
\* (UpdateWeatherState::mutate over the scenarios S4 and S5 of spec 8)
\* ------------------------------------------------------------------------

ScenarioZones == {"otis", "stella", "neo"}

\* S4: the observation and the forecast of each zone, and the review
S4Events ==
    {ObservationUpdated(zone, U) : zone \in ScenarioZones}
        \cup {ForecastUpdated(zone, U) : zone \in ScenarioZones}
        \cup {AlertsReviewed(U)}

\* S5: as S4, the two events of one zone replaced by its failure
S5Events(failed) ==
    {event \in S4Events : event.zone # failed} \cup {UpdateLocationFailed(U, failed)}

Scenarios == {S4Events} \cup {S5Events(failed) : failed \in ScenarioZones}

OrderInit ==
    /\ log = <<UpdateStarted(U, ScenarioZones)>>
    /\ su = IdleStartUpdate
    /\ fetch = [t \in FetchTasks |-> "unspawned"]
    /\ alerts = [g \in Spawns |-> UnspawnedAlerts]
    /\ issued = {}
    /\ table = NoRows
    /\ checkpoint = 0
    /\ failure = FALSE
    /\ makes = [c \in Clients |-> IdleMake]
    /\ aggregations = NoAggregations
    /\ shutdown = FALSE
    /\ monitored = [zones |-> {}, handled |-> 0]
    /\ zone_weather = [rows |-> NoRows, handled |-> 0]

\* the next event of a scenario, any that is not applied yet
ApplyEvent ==
    /\ \E scenario \in Scenarios :
         /\ \A i \in 2 .. Len(log) : log[i] \in scenario
         /\ \E event \in scenario :
              /\ \A i \in 2 .. Len(log) : log[i] # event
              /\ log' = Append(log, event)
    /\ UNCHANGED <<su, fetch, alerts, issued, table, checkpoint, failure, makes, aggregations, shutdown, monitored, zone_weather>>

OrderSpec == OrderInit /\ [][ApplyEvent]_vars

\* ------------------------------------------------------------------------
\* Any events of one update applied to the aggregate in any order
\* (UpdateWeatherState::mutate folded over the log, update/state.rs)
\* ------------------------------------------------------------------------

\* the events that carry the update_id, UpdateStarted apart
UpdateEvents(zones) ==
    {ObservationUpdated(zone, U) : zone \in zones}
        \cup {ForecastUpdated(zone, U) : zone \in zones}
        \cup {AlertActivated(zone, U) : zone \in zones}
        \cup {AlertDeactivated(zone, U) : zone \in zones}
        \cup {UpdateLocationFailed(U, zone) : zone \in zones}
        \cup {AlertsReviewed(U)}

\* the next event of the update, any that is not in the log yet
ApplyAnyEvent ==
    /\ Len(log) < MaxEvents
    /\ \E event \in UpdateEvents(su.zones) :
         /\ \A i \in DOMAIN log : log[i] # event
         /\ log' = Append(log, event)
    /\ UNCHANGED <<su, fetch, alerts, issued, table, checkpoint, failure, makes, aggregations, shutdown, monitored, zone_weather>>

AnyOrderSpec == SagaInit /\ [][ApplyAnyEvent]_vars

\* ------------------------------------------------------------------------
\* Any events of one update, UpdateStarted among them, applied to the
\* aggregate from its Quiescent state (UpdateWeatherState::mutate)
\* ------------------------------------------------------------------------

\* the most events applied
MaxApplied == 4

\* any event of the update is applied next, whatever the log holds
MutateAnyEvent ==
    /\ Len(log) < MaxApplied
    /\ \E event \in UpdateEvents(Zones)
                      \cup {UpdateStarted(U, zones) : zones \in SUBSET Zones \ {{}}} :
         log' = Append(log, event)
    /\ UNCHANGED <<su, fetch, alerts, issued, table, checkpoint, failure, makes,
                   aggregations, shutdown, monitored, zone_weather>>

MutateSpec == Init /\ [][MutateAnyEvent]_vars

\* ------------------------------------------------------------------------
\* The aggregation of the readings of one quantitative property over the
\* features of an observation (frame.rs fold_feature, QuantitativeAggregation;
\* mod.rs QualityControl)
\* ------------------------------------------------------------------------

\* the most property details folded into one aggregation
MaxDetails == 3

QualityControl == {"V", "G", "S", "C", "Z", "Q", "T", "B", "X"}

\* QualityControl::level
level(quality) ==
    CASE quality = "V" -> 9
      [] quality = "G" -> 8
      [] quality = "S" -> 7
      [] quality = "C" -> 6
      [] quality = "Z" -> 5
      [] quality = "Q" -> 4
      [] quality = "T" -> 3
      [] quality = "B" -> 2
      [] OTHER         -> 1

\* Ord for QualityControl: the Ordering of lhs.cmp(rhs)
cmp(lhs, rhs) ==
    IF level(lhs) < level(rhs) THEN "Less"
    ELSE IF level(lhs) > level(rhs) THEN "Greater"
    ELSE "Equal"

\* the values a reading may carry
DetailValues == {1, 2}

\* PropertyDetail: value and quality_control are optional
PropertyDetail ==
    [value : Option(DetailValues), quality_control : Option(QualityControl)]

Max(x, y) == IF x >= y THEN x ELSE y

Min(x, y) == IF x <= y THEN x ELSE y

\* QuantitativeAggregation::new: unwrap_or_default, unwrap_or(X)
NewQuantitativeAggregation(detail) ==
    LET value == unwrap_or(detail.value, 0)
    IN  [count |-> 1, value_sum |-> value, max_value |-> value, min_value |-> value,
         quality_control |-> unwrap_or(detail.quality_control, "X")]

\* QuantitativeAggregation::add_detail
add_detail(self, detail) ==
    IF detail.value = None \/ detail.quality_control = None
    THEN self
    ELSE LET value   == unwrap(detail.value)
             quality == unwrap(detail.quality_control)
             order   == cmp(self.quality_control, quality)
         IN  CASE order = "Less" -> self
               [] order = "Greater" ->
                     [count |-> 1, value_sum |-> value, max_value |-> value,
                      min_value |-> value, quality_control |-> quality]
               [] OTHER ->
                     [count |-> self.count + 1,
                      value_sum |-> self.value_sum + value,
                      max_value |-> Max(value, self.max_value),
                      min_value |-> Min(value, self.min_value),
                      quality_control |-> self.quality_control]

\* fold_feature for one property: the entry of the property is modified by
\* add_detail, or inserted as new
FoldFeature ==
    /\ Len(aggregations.details) < MaxDetails
    /\ \E detail \in PropertyDetail :
         aggregations' =
            [details |-> Append(aggregations.details, detail),
             entry   |-> IF aggregations.entry = None
                         THEN Some(NewQuantitativeAggregation(detail))
                         ELSE Some(add_detail(unwrap(aggregations.entry), detail))]
    /\ UNCHANGED <<log, su, fetch, alerts, issued, table, checkpoint, failure, makes,
                   shutdown, monitored, zone_weather>>

\* the details of the features of an observation folded one after the other
FrameSpec == Init /\ [][FoldFeature]_vars

\* ------------------------------------------------------------------------
\* Properties
\* ------------------------------------------------------------------------

\* the aggregate of the update, rebuilt from the log
Aggregate == UpdateWeather(log, U)

InLog(event) == \E i \in DOMAIN log : log[i] = event

StartedInLog ==
    \E i \in DOMAIN log :
        log[i].type = "UpdateStarted" /\ log[i].update_id = U

\* the log without its last event
Front(lg) == SubSeq(lg, 1, Len(lg) - 1)

\* C1: an Active saga becomes Finished by an event exactly when, with the
\* event applied to its status, the alerts are reviewed and no tracked zone
\* is InProgress; every log of a run is a log with a last event, so the
\* statement is made of the last event of the log
SagaFinishedIffComplete ==
    (log # <<>> /\ UpdateWeather(Front(log), U).tag = "Active") =>
        LET before == UpdateWeather(Front(log), U)
            after  == StatusMutate(before.status, log[Len(log)]).status
        IN  (Aggregate.tag = "Finished")
                <=> (after.alerts_reviewed /\ active_zones(after) = {})

\* event is in the log after position i
InLogAfter(i, event) == \E j \in (i + 1) .. Len(log) : log[j] = event

\* the events the log holds after position i say that zone is dealt with
ZoneSettled(i, zone) ==
    \/ /\ InLogAfter(i, ObservationUpdated(zone, U))
       /\ InLogAfter(i, ForecastUpdated(zone, U))
    \/ InLogAfter(i, UpdateLocationFailed(U, zone))

FinishedAppendsNothing ==
    [][Aggregate.tag = "Finished" => log' = log]_vars

\* C3 (P5), amended: once the saga is Finished, StartUpdate,
\* NoteAlertsReviewed and NoteLocationUpdateFailure append nothing: what is
\* appended from then on is an event of a zone
FinishedSagaAppendsNothing ==
    [][Aggregate.tag = "Finished" =>
          \A i \in (Len(log) + 1) .. Len(log') :
              log'[i].type \in LocationZoneEvent]_vars

\* make returned the Finished error to a saga command
FinishedRejection ==
    /\ Aggregate.tag = "Finished"
    /\ \E c \in issued :
          /\ c.cmd \in {"NoteAlertsReviewed", "NoteLocationUpdateFailure"}
          /\ c.result = "Finished"

\* a task of the orchestration has been spawned
OrchestrationStarted ==
    \/ \E t \in FetchTasks : fetch[t] # "unspawned"
    \/ \E spawn \in Spawns : alerts[spawn].pc # "unspawned"

\* C4: the tasks of the orchestration exist only once UpdateStarted of the
\* update is in the log
OrchestrationAfterAppend ==
    OrchestrationStarted => StartedInLog

\* C5: under weak fairness every started update is eventually Finished,
\* whichever provider calls and commands fail
EveryUpdateFinishes ==
    StartedInLog ~> (Aggregate.tag = "Finished")

\* C6: a fetch task whose provider call failed has issued
\* NoteLocationUpdateFailure for its zone
FetchFailureNoted ==
    \A t \in FetchTasks :
        fetch[t] = "provider_failed" =>
            \E c \in issued :
                /\ c.spawn = t[1] /\ c.by = t[2] /\ c.zone = t[3]
                /\ c.cmd = "NoteLocationUpdateFailure"

\* the alerts task of spawn has attempted NoteAlert for every zone of the
\* update and NoteLocationUpdateFailure for every zone whose NoteAlert failed
AlertsAttempted(spawn) ==
    /\ \A zone \in su.zones :
          \E c \in issued :
              c.spawn = spawn /\ c.cmd = "NoteAlert" /\ c.zone = zone
    /\ \A zone \in alerts[spawn].failures :
          \E c \in issued :
              /\ c.spawn = spawn /\ c.zone = zone
              /\ c.cmd = "NoteLocationUpdateFailure"

\* C7: an alerts task that has attempted its NoteAlert commands and noted
\* their failures has issued NoteAlertsReviewed by the time it exits, also
\* when some of those commands failed
AlertsReviewedIssued ==
    \A spawn \in Spawns :
        (alerts[spawn].pc = "done" /\ AlertsAttempted(spawn)) =>
            \E c \in issued :
                c.spawn = spawn /\ c.cmd = "NoteAlertsReviewed"

\* the row of the update in update_weather_history shows Finished
RowFinished ==
    /\ U \in DOMAIN table
    /\ table[U].state = "Finished"

\* C8: when no provider call and no append fails, under fairness the row of
\* a started update eventually shows Finished, whatever the interleaving of
\* the tasks and the listener
HistoryShowsFinished ==
    ([]~StartedInLog) \/ <>(failure \/ RowFinished)

\* C9: once the projection has handled the events of the update, the first
\* of them UpdateStarted, the state of the row is the state of the aggregate
\* rebuilt from the same events
HistoryStateIsAggregateState ==
    (checkpoint = Len(log) /\ log # <<>> /\ log[1].type = "UpdateStarted") =>
        /\ U \in DOMAIN table
        /\ table[U].state = EncodeDiscriminant(Aggregate.tag)

SliceOf(name) ==
    CASE name \in {"NoteObservation", "ObservationUpdated"} -> "observation"
      [] name \in {"NoteForecast", "ForecastUpdated"}       -> "forecast"
      [] OTHER                                              -> "alert"

\* C11: a zone command waiting to append is in conflict only with events of
\* its own slice: no event of another slice of the zone, appended since the
\* command read its state, matches its state query
SlicesDoNotConflict ==
    \A c \in Clients :
        makes[c].pc = "append" =>
            \A i \in (makes[c].version + 1) .. Len(log) :
                StateQueryOf(makes[c].cmd, log[i]) =>
                    SliceOf(log[i].type) = SliceOf(makes[c].cmd.kind)

\* C12: under every interleaving of the registrar commands the log never
\* holds two ForecastZoneAdded of one zone without a ForecastZoneRemoved of
\* that zone or an AllForecastZonesRemoved between them
NoDoubleForecastZoneAdded ==
    \A i, j \in 1 .. Len(log) :
        (/\ i < j
         /\ log[i].type = "ForecastZoneAdded"
         /\ log[j].type = "ForecastZoneAdded"
         /\ log[i].zone = log[j].zone)
        => \E k \in (i + 1) .. (j - 1) :
              \/ log[k] = ForecastZoneRemoved(log[i].zone)
              \/ log[k] = AllForecastZonesRemoved

\* a MonitorForecastZone that lost the race to another one of the same zone:
\* its append was a conflict and its second attempt found the zone monitored
MonitorRaceRejected ==
    \E c \in Clients :
        /\ makes[c].cmd.kind = "MonitorForecastZone"
        /\ makes[c].attempt = 2
        /\ makes[c].result = "LocationZoneAlreadyMonitored"
        /\ \E i \in 1 .. Len(log) : log[i] = ForecastZoneAdded(makes[c].cmd.zone)

\* C13: the log holds at most one AlertsReviewed of the update, however the
\* NoteAlertsReviewed commands of the update interleave
AtMostOneAlertsReviewed ==
    \A update_id \in {U} :
        Cardinality({i \in 1 .. Len(log) : log[i] = AlertsReviewed(update_id)}) <= 1

\* C14: every UpdateLocationFailed of the log names a zone of the zone list
\* of the UpdateStarted of its update
FailedZoneWasStarted ==
    \A i \in 1 .. Len(log) :
        log[i].type = "UpdateLocationFailed" =>
            \E j \in 1 .. Len(log) :
                /\ log[j].type = "UpdateStarted"
                /\ log[j].update_id = log[i].update_id
                /\ log[i].zone \in log[j].zones

\* an UpdateLocationFailed is in the log of an update that leaves a zone out
FailedZoneRecorded ==
    /\ su.zones # Zones
    /\ \E i \in 1 .. Len(log) : log[i].type = "UpdateLocationFailed"

\* the events applied after UpdateStarted
Applied == {log[i] : i \in 2 .. Len(log)}

\* C15: from [UpdateStarted{U, [otis, stella, neo]}], once the observation
\* and the forecast of each zone and AlertsReviewed are applied, in whatever
\* order, the aggregate is Finished; so it is when the two events of one
\* zone are replaced by its UpdateLocationFailed
ScenarioEndsFinished ==
    \A scenario \in Scenarios :
        Applied = scenario => Aggregate.tag = "Finished"

\* a scenario with a failed zone is applied in full, the failure last
FailureScenarioApplied ==
    /\ \E failed \in ScenarioZones : Applied = S5Events(failed)
    /\ log[Len(log)].type = "UpdateLocationFailed"
    /\ Aggregate.tag = "Finished"

\* C16: once an UpdateLocationFailed is applied to an Active saga the status
\* of its zone is Failed, whatever it was before; stated of the last event
\* of the log, every log of a run being a log with a last event
FailureMarksZoneFailed ==
    ( /\ log # <<>>
      /\ log[Len(log)].type = "UpdateLocationFailed"
      /\ UpdateWeather(Front(log), U).tag = "Active" )
    => LET before == UpdateWeather(Front(log), U)
           event  == log[Len(log)]
           after  == StatusMutate(before.status, event).status
       IN  after.location_statuses[event.zone] = Failed

\* the step an event of a zone stands for (the arms of mutate)
StepOf(event) ==
    CASE event.type = "ObservationUpdated" -> "Observation"
      [] event.type = "ForecastUpdated"    -> "Forecast"
      [] OTHER                             -> "Alert"

\* the step events of zone among the first n events of the log
IsStepOf(i, zone) == log[i].type \in LocationZoneEvent /\ log[i].zone = zone

StepsArrived(n, zone) == {StepOf(log[i]) : i \in {j \in 1 .. n : IsStepOf(j, zone)}}

RECURSIVE Advanced(_, _)
\* the default status advanced by the steps of zone in their order of arrival
Advanced(n, zone) ==
    IF n = 0 THEN InProgress({})
    ELSE IF IsStepOf(n, zone)
    THEN advance(Advanced(n - 1, zone), StepOf(log[n]))
    ELSE Advanced(n - 1, zone)

\* C17: a zone that has not failed is Succeeded exactly when the steps that
\* arrived for it hold both Observation and Forecast, in whatever order they
\* arrived and with or without Alert; otherwise it is InProgress with the
\* steps that arrived. So says advance alone, and so says the status of the
\* saga while it is Active
SucceededIffObservationAndForecast ==
    \A zone \in su.zones :
        LET steps == StepsArrived(Len(log), zone)
            expected == IF {"Observation", "Forecast"} \subseteq steps
                        THEN Succeeded ELSE InProgress(steps)
        IN  /\ Advanced(Len(log), zone) = expected
            /\ (Aggregate.tag = "Active" /\ ~InLog(UpdateLocationFailed(U, zone)))
                   => Aggregate.status.location_statuses[zone] = expected

\* the three steps of a zone arrived, Alert first and Observation last, and
\* the zone is Succeeded
AlertFirstSucceeded ==
    \E zone \in su.zones :
        /\ Len(log) = 4
        /\ log[2] = AlertActivated(zone, U)
        /\ log[3] = ForecastUpdated(zone, U)
        /\ log[4] = ObservationUpdated(zone, U)
        /\ Advanced(Len(log), zone) = Succeeded

\* the command make returned from last is of kind cmd, with result
LastMade(made, cmd, result) == \E c \in made : c.cmd = cmd /\ c.result = result

\* C18: StartUpdate of an empty zone list fails with NoLocations, StartUpdate
\* on a saga that is not Quiescent fails with AlreadyStarted, and neither
\* appends an event; any other StartUpdate appends exactly UpdateStarted
\* with its update_id and its zone list
StartUpdateOutcome ==
    [][ (\E c \in issued' : c.cmd = "StartUpdate") =>
          LET zones == su'.zones
              state == UpdateWeather(log, U)
          IN  IF zones = {}
              THEN LastMade(issued', "StartUpdate", "NoLocations") /\ log' = log
              ELSE IF state.tag # "Quiescent"
              THEN LastMade(issued', "StartUpdate", "AlreadyStarted") /\ log' = log
              ELSE /\ LastMade(issued', "StartUpdate", "Ok")
                   /\ log' = Append(log, UpdateStarted(U, zones)) ]_vars

\* StartUpdate was refused on a saga that is Finished, after it was accepted
\* on the empty log
StartUpdateRefused ==
    /\ LastMade(issued, "StartUpdate", "AlreadyStarted")
    /\ su.zones # {}
    /\ Aggregate.tag = "Finished"

\* C19: NoteAlertsReviewed and NoteLocationUpdateFailure append their event,
\* AlertsReviewed and UpdateLocationFailed of the zone given, exactly when
\* the saga is Active; on a Quiescent saga they fail with NotStarted, on a
\* Finished one with Finished, and nothing is appended
SagaCommandsOnlyWhenActive ==
    [][ \A c \in issued' :
          c.cmd \in {"NoteAlertsReviewed", "NoteLocationUpdateFailure"} =>
            LET state == UpdateWeather(log, U)
                event == IF c.cmd = "NoteAlertsReviewed"
                         THEN AlertsReviewed(U)
                         ELSE UpdateLocationFailed(U, c.zone)
            IN  CASE state.tag = "Active" ->
                        c.result = "Ok" /\ log' = Append(log, event)
                  [] state.tag = "Quiescent" ->
                        c.result = "NotStarted" /\ log' = log
                  [] OTHER ->
                        c.result = "Finished" /\ log' = log ]_vars

\* NoteLocationUpdateFailure was refused on a saga that has not started
FailureNoteBeforeStart ==
    /\ LastMade(issued, "NoteLocationUpdateFailure", "NotStarted")
    /\ Aggregate.tag = "Quiescent"

\* C20: NoteAlert appends exactly AlertActivated when the alert slice of the
\* zone holds no alert and an alert is given, exactly AlertDeactivated when
\* it holds one and none is given, and nothing in the two other cases; the
\* same command on the state that results emits nothing
NoteAlertTransitions ==
    [][ \A c \in issued' :
          c.cmd = "NoteAlert" =>
            LET active_alert == LocationZoneAlert(log, c.zone)
                given  == c.alert = "Some"
            IN  /\ c.result = "Ok"
                /\ CASE ~active_alert /\ given ->
                          log' = Append(log, AlertActivated(c.zone, U))
                     [] active_alert /\ ~given ->
                          log' = Append(log, AlertDeactivated(c.zone, U))
                     [] OTHER -> log' = log
                /\ NoteAlertProcess(LocationZoneAlert(log', c.zone),
                                    c.zone, U, given).events = <<>> ]_vars

\* NoteAlert without an alert has deactivated the alert a NoteAlert with an
\* alert had activated for the zone
AlertDeactivatedAfterActivated ==
    /\ \E c \in issued : c.cmd = "NoteAlert" /\ c.alert = "None"
    /\ log # <<>>
    /\ log[Len(log)].type = "AlertDeactivated"
    /\ InLog(AlertActivated(log[Len(log)].zone, U))

\* the NoteAlert commands the alerts task of spawn issued for zone
NoteAlertsFor(spawn, zone, alert) ==
    {c \in issued : /\ c.spawn = spawn /\ c.by = "alerts" /\ c.cmd = "NoteAlert"
                    /\ c.zone = zone /\ c.alert = alert}

\* the zones of the update in the affected lists the task fetched: those it
\* has noted an alert for and those it has still to
AffectedZones(a) == a.alerted \cup UNION {a.queue[i] : i \in DOMAIN a.queue}

\* the task of spawn fetched the alerts and is past its NoteAlert commands
NoteAlertsOver(spawn) ==
    \/ alerts[spawn].pc \in {"failures", "reviewed"}
    \/ /\ alerts[spawn].pc = "done"
       /\ \/ alerts[spawn].errors
          \/ \E c \in issued : c.spawn = spawn /\ c.cmd = "NoteAlertsReviewed"

\* C21: in a run of the alerts task a zone of the update that is in the
\* affected list of a fetched alert gets NoteAlert with the alert and never
\* NoteAlert without one, every other zone of the update gets NoteAlert
\* without an alert exactly once, and a zone outside the update gets no
\* NoteAlert; the affected zones are those of the fetch the whole run long
NoteAlertPerZone ==
    /\ [](\A spawn \in Spawns :
            /\ \A zone \in Zones \ su.zones :
                  NoteAlertsFor(spawn, zone, "Some") \cup NoteAlertsFor(spawn, zone, "None") = {}
            /\ \A zone \in AffectedZones(alerts[spawn]) :
                  NoteAlertsFor(spawn, zone, "None") = {}
            /\ NoteAlertsOver(spawn) =>
                  \A zone \in su.zones :
                      IF zone \in AffectedZones(alerts[spawn])
                      THEN NoteAlertsFor(spawn, zone, "Some") # {}
                      ELSE /\ Cardinality(NoteAlertsFor(spawn, zone, "None")) = 1
                           /\ NoteAlertsFor(spawn, zone, "Some") = {})
    /\ [][\A spawn \in Spawns :
            alerts[spawn].pc \notin {"unspawned", "fetch"} =>
                AffectedZones(alerts'[spawn]) = AffectedZones(alerts[spawn])]_vars

\* a run of the task noted an alert for one zone of the update and the
\* absence of one for another
AlertedAndUnaffected ==
    \E spawn \in Spawns :
        /\ NoteAlertsOver(spawn)
        /\ \E zone \in su.zones : NoteAlertsFor(spawn, zone, "Some") # {}
        /\ \E zone \in su.zones : NoteAlertsFor(spawn, zone, "None") # {}

\* C22: an alerts task that is past its loop over the failures has issued
\* NoteLocationUpdateFailure for the zone of every NoteAlert of its that
\* failed
NoteAlertFailureNoted ==
    \A spawn \in Spawns :
        (NoteAlertsOver(spawn) /\ alerts[spawn].pc \in {"reviewed", "done"}) =>
            \A c \in issued :
                (/\ c.spawn = spawn /\ c.by = "alerts"
                 /\ c.cmd = "NoteAlert" /\ c.result # "Ok")
                => \E n \in issued :
                      /\ n.spawn = spawn /\ n.by = "alerts"
                      /\ n.cmd = "NoteLocationUpdateFailure"
                      /\ n.zone = c.zone

\* a NoteAlert of a task failed and the task has exited
NoteAlertFailedAndTaskDone ==
    \E spawn \in Spawns :
        /\ alerts[spawn].pc = "done"
        /\ \E c \in issued :
              /\ c.spawn = spawn /\ c.cmd = "NoteAlert" /\ c.result = "Infra"
              /\ \E n \in issued :
                    /\ n.spawn = spawn /\ n.cmd = "NoteLocationUpdateFailure"
                    /\ n.zone = c.zone /\ n.result = "Ok"

\* client c runs process of a command of kind in this step
Processes(c, kind) ==
    /\ makes[c].pc = "load"
    /\ makes'[c].pc # "load"
    /\ makes[c].cmd.kind = kind

\* client c appends the events of a command of kind in this step
Appends(c, kind) ==
    /\ makes[c].pc = "append"
    /\ makes'[c].pc = "idle"
    /\ makes'[c].result = "Ok"
    /\ makes[c].cmd.kind = kind

\* C23: MonitorForecastZone of a zone that is not monitored emits exactly
\* ForecastZoneAdded of the zone, which is what its make appends; of a zone
\* that is monitored it fails with LocationZoneAlreadyMonitored and nothing
\* is appended
MonitorForecastZoneOutcome ==
    [][\A c \in Clients :
         LET zone == makes[c].cmd.zone
         IN  /\ Processes(c, "MonitorForecastZone") =>
                  /\ log' = log
                  /\ IF zone \in Registrar(log)
                     THEN /\ makes'[c].pc = "idle"
                          /\ makes'[c].result = "LocationZoneAlreadyMonitored"
                     ELSE /\ makes'[c].pc = "append"
                          /\ makes'[c].events = <<ForecastZoneAdded(zone)>>
             /\ Appends(c, "MonitorForecastZone") =>
                  /\ zone \notin Registrar(log)
                  /\ log' = Append(log, ForecastZoneAdded(zone))]_vars

\* MonitorForecastZone was refused at its first attempt for a zone that is
\* monitored
MonitoredZoneRefused ==
    \E c \in Clients :
        /\ makes[c].cmd.kind = "MonitorForecastZone"
        /\ makes[c].pc = "idle"
        /\ makes[c].attempt = 1
        /\ makes[c].result = "LocationZoneAlreadyMonitored"
        /\ makes[c].cmd.zone \in Registrar(log)

\* C24: IgnoreForecastZone of a monitored zone emits exactly
\* ForecastZoneRemoved of the zone, which is what its make appends; of a
\* zone that is not monitored it succeeds with no event, and its make leaves
\* the log and the monitored zones as they are
IgnoreForecastZoneOutcome ==
    [][\A c \in Clients :
         LET zone == makes[c].cmd.zone
         IN  /\ Processes(c, "IgnoreForecastZone") =>
                  /\ log' = log
                  /\ makes'[c].pc = "append"
                  /\ makes'[c].events =
                        IF zone \in Registrar(log)
                        THEN <<ForecastZoneRemoved(zone)>> ELSE <<>>
             /\ Appends(c, "IgnoreForecastZone") =>
                  IF zone \in Registrar(log)
                  THEN /\ log' = Append(log, ForecastZoneRemoved(zone))
                       /\ Registrar(log') = Registrar(log) \ {zone}
                  ELSE /\ log' = log
                       /\ Registrar(log') = Registrar(log)]_vars

\* IgnoreForecastZone of a zone that is not monitored, while another zone
\* is, has returned with no event
UnmonitoredZoneIgnored ==
    \E c \in Clients :
        /\ makes[c].cmd.kind = "IgnoreForecastZone"
        /\ makes[c].pc = "idle"
        /\ makes[c].result = "Ok"
        /\ makes[c].events = <<>>
        /\ makes[c].cmd.zone \notin Registrar(log)
        /\ Registrar(log) # {}

\* C25: ClearZoneMonitoring emits exactly one AllForecastZonesRemoved when a
\* zone is monitored, and once its make has appended it no zone is; when no
\* zone is monitored it succeeds with no event and its make leaves the log
\* as it is
ClearZoneMonitoringOutcome ==
    [][\A c \in Clients :
         /\ Processes(c, "ClearZoneMonitoring") =>
              /\ log' = log
              /\ makes'[c].pc = "append"
              /\ makes'[c].events =
                    IF Registrar(log) # {}
                    THEN <<AllForecastZonesRemoved>> ELSE <<>>
         /\ Appends(c, "ClearZoneMonitoring") =>
              IF Registrar(log) # {}
              THEN /\ log' = Append(log, AllForecastZonesRemoved)
                   /\ Registrar(log') = {}
              ELSE log' = log]_vars

\* ClearZoneMonitoring has cleared both zones
BothZonesCleared ==
    /\ Len(log) = 3
    /\ log[1].type = "ForecastZoneAdded"
    /\ log[2].type = "ForecastZoneAdded"
    /\ log[3] = AllForecastZonesRemoved
    /\ Registrar(log) = {}

\* C26: update_weather of the empty zone list returns None, with no event
\* appended and no task started; of any other zone list it returns, when
\* make succeeds, the update_id of the UpdateStarted it appended with that
\* zone list, and never None
UpdateWeatherReturn ==
    /\ (su.pc # "idle" /\ su.zones = {}) =>
          /\ su.returned = "None"
          /\ log = <<>>
          /\ ~OrchestrationStarted
    /\ su.zones # {} => su.returned \in {"-", U, "Err"}
    /\ su.pc = "done" =>
          /\ su.returned = U
          /\ InLog(UpdateStarted(su.returned, su.zones))

\* update_weather has returned None
ReturnedNone == su.returned = "None" /\ su.pc = "none"

\* the readings folded so far
Readings == {aggregations.details[i] : i \in DOMAIN aggregations.details}

\* the value and the grade of the reading at position i
ValueAt(i) == unwrap(aggregations.details[i].value)

GradeAt(i) == unwrap(aggregations.details[i].quality_control)

\* the readings of the highest grade among those folded, by position
HighestGrade ==
    {i \in DOMAIN aggregations.details :
        \A j \in DOMAIN aggregations.details : level(GradeAt(j)) <= level(GradeAt(i))}

RECURSIVE SumOf(_)
\* the sum of the values of the readings at positions
SumOf(positions) ==
    IF positions = {} THEN 0
    ELSE LET i == CHOOSE k \in positions : TRUE
         IN  ValueAt(i) + SumOf(positions \ {i})

\* C27 (P6): for readings that all carry a value and a grade, folded in any
\* order, the count, the sum, the min and the max of the aggregation are
\* those of the readings of the highest grade present, and the grade of the
\* aggregation is that grade
HighestGradeAggregated ==
    ( /\ aggregations.details # <<>>
      /\ \A detail \in Readings :
            detail.value # None /\ detail.quality_control # None )
    => LET entry == unwrap(aggregations.entry)
       IN  /\ \E i \in HighestGrade : entry.quality_control = GradeAt(i)
           /\ entry.count = Cardinality(HighestGrade)
           /\ entry.value_sum = SumOf(HighestGrade)
           /\ \E i \in HighestGrade : entry.max_value = ValueAt(i)
           /\ \A i \in HighestGrade : ValueAt(i) <= entry.max_value
           /\ \E i \in HighestGrade : entry.min_value = ValueAt(i)
           /\ \A i \in HighestGrade : entry.min_value <= ValueAt(i)

\* C28: once the shutdown signal has been raised no observe, forecast or
\* alerts task of an update issues a further command
NoCommandAfterShutdown ==
    [][shutdown => issued' \subseteq issued]_vars

\* C29: UpdateStarted of an update precedes in the log every other event
\* that carries its update_id
StartedPrecedesEvents ==
    \A i \in DOMAIN log :
        (log[i].update_id = U /\ log[i].type # "UpdateStarted") =>
            \E j \in 1 .. (i - 1) :
                log[j].type = "UpdateStarted" /\ log[j].update_id = U

\* C30: the observe task and the forecast task of each zone and the alerts
\* task of an update are started once in total, also when process of
\* StartUpdate runs again after a conflict
TasksStartedOnce ==
    /\ Cardinality({spawn \in Spawns : alerts[spawn].pc # "unspawned"}) <= 1
    /\ \A kind \in FetchKinds, zone \in Zones :
          Cardinality({spawn \in Spawns : fetch[<<spawn, kind, zone>>] # "unspawned"}) <= 1

\* the log with the events after its first one reordered by p
Reordered(lg, p) ==
    <<lg[1]>> \o [i \in 1 .. (Len(lg) - 1) |-> lg[p[i] + 1]]

\* C31: the events of the update that follow UpdateStarted give the same
\* state tag of the aggregate in every order in which they can lie in the log
TagIndependentOfOrder ==
    \A p \in Permutations(1 .. (Len(log) - 1)) :
        UpdateWeather(Reordered(log, p), U).tag = Aggregate.tag

ReviewedSagaFinishesAtLastZone ==
    log # <<>> =>
        LET before == UpdateWeather(Front(log), U)
            event  == log[Len(log)]
            after  == StatusMutate(before.status, event).status
        IN  (before.tag = "Active" /\ event.update_id = U) =>
                /\ (event.type = "AlertsReviewed" /\ active_zones(before.status) # {})
                      => Aggregate.tag = "Active"
                /\ before.status.alerts_reviewed
                      => ( Aggregate.tag = "Finished" <=>
                             /\ active_zones(before.status) # {}
                             /\ active_zones(after) = {} )

\* the alert events of zone in the log, in order
AlertEventsOf(zone) ==
    SelectSeq(log, LAMBDA event :
        event.zone = zone /\ event.type \in {"AlertActivated", "AlertDeactivated"})

\* C34: under every interleaving of the NoteAlert commands the AlertActivated
\* and AlertDeactivated events of a zone alternate in the log, the first of
\* them an AlertActivated
AlertEventsAlternate ==
    \A zone \in Zones :
        LET alert_events == AlertEventsOf(zone)
        IN  \A i \in DOMAIN alert_events :
                alert_events[i].type =
                    IF i % 2 = 1 THEN "AlertActivated" ELSE "AlertDeactivated"

\* a NoteAlert with an alert reads the state again after a conflict and finds
\* the alert another client activated since its first read
NoteAlertRaceRetried ==
    \E c \in Clients :
        /\ makes[c].cmd = NoteAlert(TheZone, TRUE)
        /\ makes[c].pc = "load"
        /\ makes[c].attempt = 2
        /\ Len(AlertEventsOf(TheZone)) = 1

\* C35: the monitored zones of the view are at every moment the
\* location_codes of Registrar rebuilt from a prefix of the log, and from
\* the whole log once the listener has handled every event
ViewIsRegistrarOfPrefix ==
    /\ \E n \in 0 .. Len(log) : monitored.zones = RegistrarAfter(log, n)
    /\ monitored.handled = Len(log) => monitored.zones = Registrar(log)

\* the row of zone in zone_weather; a zone without a row has no value in
\* any column
ZoneWeatherRow(rows, zone) ==
    IF zone \in DOMAIN rows THEN rows[zone]
    ELSE [current |-> None, forecast |-> None, alert |-> None, last_updated_at |-> None]

\* the column an event of a zone is written to
ColumnOf(event) ==
    CASE event.type = "ObservationUpdated" -> "current"
      [] event.type = "ForecastUpdated"    -> "forecast"
      [] OTHER                             -> "alert"

\* C36: the projection handling an event of a zone writes, in the row of the
\* zone, the column of the kind of the event (null for AlertDeactivated) and
\* last_updated_at; the two other columns of the row and the rows of the
\* other zones keep their values
ZoneWeatherFrame ==
    [][( /\ zone_weather.handled' = zone_weather.handled + 1
         /\ log[zone_weather.handled + 1].type \in LocationZoneEvent )
       => LET event  == log[zone_weather.handled + 1]
              before == zone_weather.rows
              after  == zone_weather.rows'
          IN  /\ DOMAIN after = DOMAIN before \cup {event.zone}
              /\ \A zone \in DOMAIN before \ {event.zone} : after[zone] = before[zone]
              /\ \A column \in {"current", "forecast", "alert"} \ {ColumnOf(event)} :
                    after[event.zone][column] =
                        ZoneWeatherRow(before, event.zone)[column]
              /\ after[event.zone][ColumnOf(event)] =
                    IF event.type = "AlertDeactivated"
                    THEN None ELSE Some(zone_weather.handled + 1)
              /\ after[event.zone].last_updated_at # None]_vars

\* the projection has handled every event; the row of a zone holds a frame
\* and an alert written by different events, and another zone has a row
RowWrittenByTwoEvents ==
    /\ zone_weather.handled = Len(log)
    /\ \E z, y \in DOMAIN zone_weather.rows :
          /\ z # y
          /\ zone_weather.rows[z].current # None
          /\ zone_weather.rows[z].alert # None
          /\ zone_weather.rows[z].forecast = None

StepEvents == {"ObservationUpdated", "ForecastUpdated", "AlertActivated", "AlertDeactivated"}

\* C39: a step of a zone never takes the status of a zone backwards: an
\* InProgress zone keeps the steps it has completed or becomes Succeeded,
\* a Succeeded or Failed zone stays as it is, and no zone but the zone of the
\* step is touched; stated of the last event of the log
ZoneStatusNeverBackwards ==
    ( /\ Len(log) >= 2
      /\ log[Len(log)].type \in StepEvents
      /\ UpdateWeather(Front(log), U).tag = "Active" )
    => LET before == UpdateWeather(Front(log), U).status
           event  == log[Len(log)]
           after  == StatusMutate(before, event).status
       IN  \A zone \in TrackedZones(before) :
              LET old == before.location_statuses[zone]
                  new == after.location_statuses[zone]
              IN  /\ zone \in TrackedZones(after)
                  /\ zone # event.zone => new = old
                  /\ old.kind # "InProgress" => new = old
                  /\ old.kind = "InProgress" =>
                        \/ new = Succeeded
                        \/ new.kind = "InProgress" /\ old.completed \subseteq new.completed

\* a step arrives for a zone that has succeeded while the saga is Active
StepOnSucceededZone ==
    /\ Len(log) >= 2
    /\ log[Len(log)].type \in StepEvents
    /\ UpdateWeather(Front(log), U).tag = "Active"
    /\ UpdateWeather(Front(log), U).status.location_statuses[log[Len(log)].zone] = Succeeded

\* C40: an event applied to a Finished aggregate leaves it Finished, an
\* event other than UpdateStarted applied to a Quiescent aggregate leaves it
\* Quiescent, and UpdateStarted takes a Quiescent aggregate to Active; stated
\* of the last event of the log
FinishedAndQuiescentAbsorb ==
    log # <<>> =>
        LET before == UpdateWeather(Front(log), U)
            event  == log[Len(log)]
        IN  /\ before.tag = "Finished" => Aggregate.tag = "Finished"
            /\ (before.tag = "Quiescent" /\ event.type # "UpdateStarted")
                  => Aggregate.tag = "Quiescent"
            /\ (before.tag = "Quiescent" /\ event.type = "UpdateStarted")
                  => Aggregate.tag = "Active"

\* UpdateStarted is applied to a Finished aggregate, which stays Finished
StartedOnFinished ==
    /\ Len(log) = MaxApplied
    /\ log[Len(log)].type = "UpdateStarted"
    /\ UpdateWeather(Front(log), U).tag = "Finished"
    /\ Aggregate.tag = "Finished"

====
